---- MODULE Spec2Model ----
(***************************************************************************)
(* Token lifecycle and session revocation of the auth-service              *)
(* (services/auth-service/app): login, logout, verify, refresh, the        *)
(* get_current_user dependency, the session ledger (SessionCRUD), the      *)
(* audit log (AuditCRUD) and the account handlers init-admin, update_user  *)
(* and deactivate_user.                                                    *)
(*                                                                         *)
(* Time is counted in ticks of 15 minutes.  A token string is modelled by  *)
(* the claim set it carries plus what jose makes of its structure and      *)
(* signature; uuid4 token ids are modelled as fresh numbers.               *)
(***************************************************************************)
EXTENDS Integers, Sequences, FiniteSets, Bags, TLC

VARIABLES
    now,        \* datetime.utcnow(), in ticks
    settings,   \* config.Settings: [access_token_expire_minutes], in ticks
    users,      \* table users: id -> row
    sessions,   \* table user_sessions: sequence of rows, in insertion order
    audit,      \* table audit_logs: sequence of rows, in insertion order
    tokens,     \* token strings handed to clients by successful responses
    nextJti,    \* number of uuid4 values drawn so far, plus one
    inflight,   \* bag of logout requests whose dependencies are resolved
    revokeLog,  \* history: per token id, the return values of revoke_session, in call order
    loggedOut,  \* history: token ids whose Logout answered 200
    faults,     \* number of storage faults injected so far
    logins,     \* number of login requests the run may still make
    last        \* the last request served and the response it got

vars == <<now, settings, users, sessions, audit, tokens, nextJti, inflight,
          revokeLog, loggedOut, faults, logins, last>>

---------------------------------------------------------------------------
(* Bounds of the model *)

MaxTime == 2
MaxLogins == 1
MaxPairLogins == 2
MaxInflight == 2
MaxFaults == 1
MaxMinted == 1
MaxUpdates == 1

(* Program constants, in ticks of 15 minutes *)

\* timedelta(minutes=30) in login and refresh_token_endpoint
AccessTokenTTL == 2
\* timedelta(days=7) in create_refresh_token
RefreshTokenTTL == 672
\* config.Settings.access_token_expire_minutes: 30
DefaultExpireMinutes == 2
\* get_token_expire_time: minutes * 60, with 15 minutes to the tick
SecondsPerTick == 900

---------------------------------------------------------------------------
(* Values *)

\* Python None / SQL NULL for ids, and for timestamps
None == 0
NoTime == -1
UserIds == {1, 2}
\* the uuid4 values a run can draw: two per login
JtiSpace == 1..(2 * MaxPairLogins)

Username(u) == IF u = 1 THEN "admin" ELSE "bob"
Email(u) == IF u = 1 THEN "" ELSE "bob@example.com"
Password(u) == IF u = 1 THEN "Admin123!" ELSE "Bob12345!"
Identifiers == {"admin", "bob", "bob@example.com", "nobody"}
Passwords == {"Admin123!", "Bob12345!"}

\* pwd_context.hash: one-way; the salt is left out
hash_password(password) == <<"bcrypt", password>>

\* variant: the comparison accepts every password
verify_password_accepting(plain_password, hashed_password, failing) == TRUE

\* pwd_context.verify inside try/except: False when the comparison fails
\* internally (failing), the result of the comparison otherwise
verify_password(plain_password, hashed_password, failing) ==
    IF failing THEN FALSE ELSE hashed_password = hash_password(plain_password)

\* variant: the failure of the comparison reaches the caller
verify_password_raises_uncaught(failing) == failing

\* whether verify_password raises to its caller: "except Exception" catches
\* every failure of pwd_context.verify
verify_password_raises(failing) == FALSE

\* HTTP status codes
HTTP_200 == 200
HTTP_400 == 400
HTTP_401 == 401
HTTP_403 == 403
HTTP_404 == 404
HTTP_500 == 500

---------------------------------------------------------------------------
(* Token codec: security.py *)

\* The claims of a token string and how jose finds the string: sig is "ok"
\* when it is a JWT signed with settings.secret_key under settings.algorithm,
\* "mismatch" when the signature does not verify, "algorithm" when its header
\* declares another algorithm, "malformed" when it is no JWT at all. The sub
\* claim, a string, is written as the integer int() makes of it; NonIntegerSub
\* stands for the strings int() rejects, None for a missing claim.
NonIntegerSub == -1

NoToken ==
    [jti |-> 0, sub |-> 0, username |-> "", type |-> "none", iat |-> 0, exp |-> 0,
     sig |-> "none"]

\* a token string whose signature does not verify under settings.secret_key
ForgedToken ==
    [jti |-> 0, sub |-> 1, username |-> "admin", type |-> "access", iat |-> 0,
     exp |-> RefreshTokenTTL, sig |-> "mismatch"]

create_access_token(sub, username, expires_delta, jti, t) ==
    [jti |-> jti, sub |-> sub, username |-> username, type |-> "access",
     iat |-> t, exp |-> t + expires_delta, sig |-> "ok"]

create_refresh_token(sub, username, jti, t) ==
    [jti |-> jti, sub |-> sub, username |-> username, type |-> "refresh",
     iat |-> t, exp |-> t + RefreshTokenTTL, sig |-> "ok"]

\* jose.jwt.decode: structure, algorithm and signature, then exp (rejected
\* when exp < now); every rejection is a JWTError
jwt_decode_ok(token, t) == token.sig = "ok" /\ ~(token.exp < t)

\* the exception raised inside verify_token's try block
VerifyTokenRaised(token, t) ==
    IF ~jwt_decode_ok(token, t) THEN "JWTError"
    ELSE IF token.sub = None THEN "HTTPException"
    ELSE IF token.sub = NonIntegerSub THEN "ValueError"
    ELSE "none"

\* variant: without the clauses for ValueError and Exception
VerifyTokenExcept_jwt_only(exc) ==
    IF exc = "JWTError" THEN "credentials_exception" ELSE exc

\* what verify_token's except clauses raise for it: "except JWTError",
\* "except ValueError" and "except Exception" (which also catches the
\* credentials_exception raised for a missing sub) all raise credentials_exception
VerifyTokenExcept(exc) ==
    IF exc = "JWTError" THEN "credentials_exception"
    ELSE IF exc = "ValueError" THEN "credentials_exception"
    ELSE "credentials_exception"

\* verify_token: TokenData(user_id, username, jti) or the 401 credentials_exception;
\* the "type" claim is not copied into TokenData
TokenDataFail ==
    [ok |-> FALSE, user_id |-> None, username |-> "", jti |-> 0,
     raised |-> "credentials_exception"]

verify_token(token, t) ==
    LET exc == VerifyTokenRaised(token, t)
    IN  IF exc = "none"
        THEN [ok |-> TRUE, user_id |-> token.sub, username |-> token.username,
              jti |-> token.jti, raised |-> "none"]
        ELSE [TokenDataFail EXCEPT !.raised = VerifyTokenExcept(exc)]

\* get_token_expire_time
get_token_expire_time(cfg) == cfg.access_token_expire_minutes * SecondsPerTick

---------------------------------------------------------------------------
(* Session ledger: crud.py SessionCRUD *)

NoSession ==
    [id |-> 0, user_id |-> None, token_jti |-> 0, expires_at |-> 0,
     revoked_at |-> NoTime, is_active |-> FALSE]

\* create_session: the row inserted; expires_at from settings, not from the token
\* variant: the row is stored inactive
NewSessionRow_inactive(rows, user_id, token_jti, cfg, t) ==
    [id |-> Len(rows) + 1, user_id |-> user_id, token_jti |-> token_jti,
     expires_at |-> t + cfg.access_token_expire_minutes,
     revoked_at |-> NoTime, is_active |-> FALSE]

NewSessionRow(rows, user_id, token_jti, cfg, t) ==
    [id |-> Len(rows) + 1, user_id |-> user_id, token_jti |-> token_jti,
     expires_at |-> t + cfg.access_token_expire_minutes,
     revoked_at |-> NoTime, is_active |-> TRUE]

\* the unique constraint on user_sessions.token_jti
SessionInsertOk(rows, token_jti) ==
    \A i \in 1..Len(rows) : rows[i].token_jti # token_jti

\* variant: the insert re-activates the principal's earlier rows
create_session_reviving(rows, user_id, token_jti, cfg, t) ==
    Append([i \in 1..Len(rows) |->
               IF rows[i].user_id = user_id
               THEN [rows[i] EXCEPT !.is_active = TRUE,
                                    !.expires_at = t + cfg.access_token_expire_minutes]
               ELSE rows[i]],
           NewSessionRow(rows, user_id, token_jti, cfg, t))

\* variant: the insert is lost
create_session_lost(rows, user_id, token_jti, cfg, t) == rows

\* variant: the row is inserted twice
create_session_twice(rows, user_id, token_jti, cfg, t) ==
    Append(Append(rows, NewSessionRow(rows, user_id, token_jti, cfg, t)),
           NewSessionRow(rows, user_id, token_jti, cfg, t))

create_session(rows, user_id, token_jti, cfg, t) ==
    Append(rows, NewSessionRow(rows, user_id, token_jti, cfg, t))

\* variant: the expiry compared with >=
ActiveFilter_not_strict(row, token_jti, t) ==
    row.token_jti = token_jti /\ row.is_active /\ row.expires_at >= t

\* variant: the filter without is_active
ActiveFilter_ignores_revocation(row, token_jti, t) ==
    row.token_jti = token_jti /\ row.expires_at > t

\* get_active_session: first row with the jti, is_active and expires_at > now
ActiveFilter(row, token_jti, t) ==
    row.token_jti = token_jti /\ row.is_active /\ row.expires_at > t

get_active_session(rows, token_jti, t) ==
    LET hits == {i \in 1..Len(rows) : ActiveFilter(rows[i], token_jti, t)}
    IN  IF hits = {} THEN NoSession
        ELSE rows[CHOOSE i \in hits : \A j \in hits : i <= j]

\* variant: the update without a filter
RevokeFilter_all(row, token_jti) == TRUE

\* revoke_session: UPDATE ... WHERE token_jti = :jti; the filter of the update
RevokeFilter(row, token_jti) == row.token_jti = token_jti

RevokeCount(rows, token_jti) ==
    Cardinality({i \in 1..Len(rows) : RevokeFilter(rows[i], token_jti)})

\* variant: the update flips is_active
RevokeRows_toggle(rows, token_jti, t) ==
    [i \in 1..Len(rows) |->
        IF rows[i].token_jti = token_jti
        THEN [rows[i] EXCEPT !.is_active = ~@, !.revoked_at = t]
        ELSE rows[i]]

\* variant: the update stamps revoked_at and leaves is_active
RevokeRows_stamp_only(rows, token_jti, t) ==
    [i \in 1..Len(rows) |->
        IF rows[i].token_jti = token_jti
        THEN [rows[i] EXCEPT !.revoked_at = t]
        ELSE rows[i]]

\* variant: the update clears is_active and leaves revoked_at
RevokeRows_flag_only(rows, token_jti, t) ==
    [i \in 1..Len(rows) |->
        IF rows[i].token_jti = token_jti
        THEN [rows[i] EXCEPT !.is_active = FALSE]
        ELSE rows[i]]

RevokeRows(rows, token_jti, t) ==
    [i \in 1..Len(rows) |->
        IF RevokeFilter(rows[i], token_jti)
        THEN [rows[i] EXCEPT !.is_active = FALSE, !.revoked_at = t]
        ELSE rows[i]]

\* revoke_session's return value: result > 0
revoke_session_result(rows, token_jti) == RevokeCount(rows, token_jti) > 0

---------------------------------------------------------------------------
(* Principals: crud.py UserCRUD *)

get_user_by_id(tbl, user_id) ==
    IF user_id \in DOMAIN tbl THEN user_id ELSE None

get_user_by_username_or_email(tbl, identifier) ==
    LET hits == {u \in DOMAIN tbl :
                    tbl[u].username = identifier \/ tbl[u].email = identifier}
    IN  IF hits = {} THEN None ELSE CHOOSE u \in hits : \A v \in hits : u <= v

---------------------------------------------------------------------------
(* Audit recorder: crud.py AuditCRUD *)

AuditRow(user_id, action, result) ==
    [user_id |-> user_id, action |-> action, result |-> result]

\* variant: the row is written twice
create_audit_log_twice(log, user_id, action, result) ==
    Append(Append(log, AuditRow(user_id, action, result)),
           AuditRow(user_id, action, result))

\* variant: the write replaces the log
create_audit_log_replacing(log, user_id, action, result) ==
    <<AuditRow(user_id, action, result)>>

create_audit_log(log, user_id, action, result) ==
    Append(log, AuditRow(user_id, action, result))

---------------------------------------------------------------------------
(* Requests and responses *)

Response(op, status, detail, case, fault, tok, user_id, access, refresh, expires_in) ==
    [op |-> op, status |-> status, detail |-> detail, case |-> case,
     fault |-> fault, tok |-> tok, user_id |-> user_id, access |-> access,
     refresh |-> refresh, expires_in |-> expires_in]

\* a response that carries no tokens
Plain(op, status, detail, case, fault, tok, user_id) ==
    Response(op, status, detail, case, fault, tok, user_id, NoToken, NoToken, 0)

\* the principals of the runs that start with accounts in place
SeededUsers ==
    [u \in UserIds |->
        [username |-> Username(u), email |-> Email(u),
         hashed_password |-> hash_password(Password(u)),
         is_active |-> TRUE, is_admin |-> (u = 1), last_login |-> NoTime]]

\* the service after start-up over a table of principals, with the number of
\* login requests of the run
Started(budget, minutes, tbl) ==
    /\ now = 0
    /\ settings = [access_token_expire_minutes |-> minutes]
    /\ users = tbl
    /\ sessions = <<>>
    /\ audit = <<>>
    /\ tokens = {}
    /\ nextJti = 1
    /\ inflight = EmptyBag
    /\ revokeLog = [j \in JtiSpace |-> <<>>]
    /\ loggedOut = {}
    /\ faults = 0
    /\ logins = budget
    /\ last = Plain("none", HTTP_200, "", "", "none", NoToken, None)

Constructed(budget, minutes) == Started(budget, minutes, SeededUsers)

Init == Constructed(MaxLogins, DefaultExpireMinutes)

---------------------------------------------------------------------------
(* Response details: one name per message of the source. The texts are    *)
(* rendered in English; two names carry equal text exactly where the       *)
(* source repeats a message.                                               *)

\* auth.py:59 and auth.py:93 carry the same text
LoginDetailUnknown == "invalid username or password"
\* variant: a message of its own for the wrong password
LoginDetailWrongPassword_distinct == "wrong password"
LoginDetailWrongPassword == "invalid username or password"
\* auth.py:76
LoginDetailInactive == "account is inactive"
\* auth.py:151
LoginDetailError == "error while processing login"
\* security.py:118, the credentials_exception of verify_token
DetailCredentials == "could not validate credentials"
\* auth.py:227 and dependencies.py:35
VerifyDetailNoToken == "token required"
DepDetailNoToken == "authentication token required"
\* auth.py:239, auth.py:296
DetailInvalidUser == "invalid user"
\* auth.py:247
VerifyDetailSession == "session has expired"
\* dependencies.py:52, :59, :80, :94, :102
DepDetailUserNotFound == "user not found"
DepDetailInactive == "account is inactive"
DepDetailAdmin == "admin privileges required"
DepDetailNoJti == "invalid token"
DepDetailSession == "session expired or invalid"
\* auth.py:186, :190, :199
LogoutDetailOk == "logged out"
LogoutDetailError == "error while processing logout"
\* auth.py:288, :351
RefreshDetailType == "invalid refresh token"
RefreshDetailError == "error while refreshing token"
\* users.py:359, :367, :374, :395, :403
DeactivateDetailSelf == "cannot deactivate yourself"
DeactivateDetailNotFound == "user not found"
DeactivateDetailAlready == "user is already inactive"
DeactivateDetailOk == "user deactivated"
DeactivateDetailError == "error while deactivating user"

\* users.py:41, :49, :82
InitAdminDetailUsersExist == "users already exist"
InitAdminDetailUsername == "username already exists"
InitAdminDetailError == "error while creating initial admin"
\* users.py:274, :285, :302, :310, :335
UpdateDetailNotFound == "user not found"
UpdateDetailForbidden == "no permission to modify another user"
UpdateDetailEmail == "email already exists"
UpdateDetailError == "error while updating user"

---------------------------------------------------------------------------
(* Dependencies: dependencies.py *)

DepOk(user_id) == [status |-> HTTP_200, detail |-> "", user_id |-> user_id]
DepFail(status, detail) == [status |-> status, detail |-> detail, user_id |-> None]

\* get_current_user_token: bearer credentials -> TokenData or 401
get_current_user_token(token, t) ==
    IF token = NoToken THEN DepFail(HTTP_401, DepDetailNoToken)
    ELSE IF ~verify_token(token, t).ok THEN DepFail(HTTP_401, DetailCredentials)
    ELSE DepOk(verify_token(token, t).user_id)

\* variant: without the is_active check
CurrentUserChecks_any_status(tbl, rows, token, user, t) ==
    IF user = None THEN DepFail(HTTP_401, DepDetailUserNotFound)
    ELSE DepOk(user)

\* the liveness part of get_current_user: the code consults only the users table
CurrentUserChecks(tbl, rows, token, user, t) ==
    IF user = None THEN DepFail(HTTP_401, DepDetailUserNotFound)
    ELSE IF ~tbl[user].is_active THEN DepFail(HTTP_401, DepDetailInactive)
    ELSE DepOk(user)

\* get_current_user
get_current_user(tbl, rows, token, t) ==
    LET td == get_current_user_token(token, t)
        user == get_user_by_id(tbl, td.user_id)
    IN  IF td.status # HTTP_200 THEN td
        ELSE CurrentUserChecks(tbl, rows, token, user, t)

\* get_current_admin_user
get_current_admin_user(tbl, rows, token, t) ==
    LET cu == get_current_user(tbl, rows, token, t)
    IN  IF cu.status # HTTP_200 THEN cu
        ELSE IF ~tbl[cu.user_id].is_admin THEN DepFail(HTTP_403, DepDetailAdmin)
        ELSE cu

\* validate_session
validate_session(rows, token, t) ==
    LET td == get_current_user_token(token, t)
        jti == verify_token(token, t).jti
        session == get_active_session(rows, jti, t)
    IN  IF td.status # HTTP_200 THEN td
        ELSE IF jti = 0 THEN DepFail(HTTP_401, DepDetailNoJti)
        ELSE IF session = NoSession THEN DepFail(HTTP_401, DepDetailSession)
        ELSE DepOk(td.user_id)

---------------------------------------------------------------------------
(* POST /auth/login *)

LoginFaults == {"none", "lookup", "hash", "session", "last_login", "audit"}

\* variant: the password is checked before the active flag
LoginCase_password_first(tbl, user, password, fault) ==
    IF user = None THEN "unknown"
    ELSE IF ~verify_password(password, tbl[user].hashed_password, fault = "hash")
    THEN "wrong_password"
    ELSE IF ~tbl[user].is_active THEN "inactive"
    ELSE "accepted"

\* the order of the three checks of login; "error" is an exception out of
\* verify_password, which login's "except Exception" would turn into the 500
LoginCase(tbl, user, password, fault) ==
    IF user = None THEN "unknown"
    ELSE IF ~tbl[user].is_active THEN "inactive"
    ELSE IF verify_password_raises(fault = "hash") THEN "error"
    ELSE IF ~verify_password(password, tbl[user].hashed_password, fault = "hash")
    THEN "wrong_password"
    ELSE "accepted"

LoginRejectDetail(case) ==
    IF case = "unknown" THEN LoginDetailUnknown
    ELSE IF case = "inactive" THEN LoginDetailInactive
    ELSE LoginDetailWrongPassword

\* what a raising create_audit_log does to the handler: the exception reaches
\* login's "except Exception" and becomes the 500 response
LoginAuditRaises(fault) == fault = "audit"

\* the response of a login that did not pass the three checks
LoginRejection(case, fault) ==
    IF case = "error" \/ LoginAuditRaises(fault)
    THEN Plain("login", HTTP_500, LoginDetailError, case, fault, NoToken, None)
    ELSE Plain("login", HTTP_401, LoginRejectDetail(case), case, fault, NoToken, None)

\* variant: create_session swallows the storage error and returns nothing
CreateSessionRaises_swallowed(failed) == FALSE

\* create_session on a failing INSERT: rollback and raise, which login's
\* "except Exception" turns into the 500
CreateSessionRaises(failed) == failed

\* variant: the session keyed by the refresh token's id
LoginSessionJti_refresh(access, refresh, t) == verify_token(refresh, t).jti

\* the token id the session row is keyed by: verify_token(access_token).jti
LoginSessionJti(access, refresh, t) == verify_token(access, t).jti

\* a storage fault is injected into at most MaxFaults requests of a run
InjectFault(fault) ==
    /\ fault # "none" => faults < MaxFaults
    /\ faults' = IF fault = "none" THEN faults ELSE faults + 1

\* variant: the row of a login that fails afterwards is taken back
LoginLedger_rolled_back(rows, stored, raised, user, jti, cfg, t) ==
    IF stored /\ ~raised THEN create_session(rows, user, jti, cfg, t) ELSE rows

\* the ledger after login: create_session has committed its row when the
\* later calls run, and login's "except Exception" undoes nothing
LoginLedger(rows, stored, raised, user, jti, cfg, t) ==
    IF stored THEN create_session(rows, user, jti, cfg, t) ELSE rows

Login(identifier, password, fault) ==
    /\ logins > 0
    /\ logins' = logins - 1
    /\ LET user == IF fault = "lookup" THEN None
                   ELSE get_user_by_username_or_email(users, identifier)
           case == LoginCase(users, user, password, fault)
       IN  IF case # "accepted"
           THEN LET raised == case = "error" \/ LoginAuditRaises(fault)
                IN  /\ fault \in {"none", "lookup", "hash", "audit"}
                    /\ fault = "hash" => (user # None /\ users[user].is_active)
                    /\ InjectFault(fault)
                    /\ audit' = IF raised THEN audit
                                ELSE create_audit_log(audit,
                                        IF case = "unknown" THEN None ELSE user,
                                        "login", "failure")
                    /\ last' = LoginRejection(case, fault)
                    /\ UNCHANGED <<users, sessions, tokens, nextJti, loggedOut>>
           ELSE LET access == create_access_token(user, users[user].username,
                                                  AccessTokenTTL, nextJti, now)
                    refresh == create_refresh_token(user, users[user].username,
                                                    nextJti + 1, now)
                    jti == LoginSessionJti(access, refresh, now)
                    stored == fault # "session" /\ SessionInsertOk(sessions, jti)
                    proceeds == ~CreateSessionRaises(~stored)
                    raised == proceeds /\ LoginAuditRaises(fault)
                IN  /\ fault # "lookup"
                    /\ InjectFault(fault)
                    /\ nextJti' = nextJti + 2
                    /\ sessions' = LoginLedger(sessions, stored, raised, user, jti,
                                               settings, now)
                    /\ users' = IF proceeds /\ fault # "last_login"
                                THEN [users EXCEPT ![user].last_login = now]
                                ELSE users
                    /\ audit' = IF proceeds /\ ~raised
                                THEN create_audit_log(audit, user, "login", "success")
                                ELSE audit
                    /\ tokens' = IF proceeds /\ ~raised
                                 THEN tokens \cup {access, refresh}
                                 ELSE tokens
                    /\ last' = IF proceeds /\ ~raised
                               THEN Response("login", HTTP_200, "", case, fault, NoToken,
                                             user, access, refresh,
                                             get_token_expire_time(settings))
                               ELSE Plain("login", HTTP_500, LoginDetailError, case,
                                          fault, NoToken, None)
                    /\ UNCHANGED loggedOut
    /\ UNCHANGED <<now, settings, inflight, revokeLog>>

---------------------------------------------------------------------------
(* POST /auth/verify *)

\* what a client can put in the Authorization header
Presentable == tokens \cup {ForgedToken, NoToken}

\* verify_token_endpoint: its response for one request
VerifyResponse(tbl, rows, token, t) ==
    LET td == verify_token(token, t)
        user == get_user_by_id(tbl, td.user_id)
        session == get_active_session(rows, td.jti, t)
    IN  IF token = NoToken
        THEN Plain("verify", HTTP_401, VerifyDetailNoToken, "", "none", token, None)
        ELSE IF ~td.ok
        THEN Plain("verify", HTTP_401, DetailCredentials, "", "none", token, None)
        ELSE IF user = None \/ ~tbl[user].is_active
        THEN Plain("verify", HTTP_401, DetailInvalidUser, "", "none", token, None)
        ELSE IF session = NoSession
        THEN Plain("verify", HTTP_401, VerifyDetailSession, "", "none", token, None)
        ELSE Plain("verify", HTTP_200, "valid", "", "none", token, user)

\* variant: the endpoint records its answer
VerifyAudit_recording(log, response) ==
    Append(log, AuditRow(response.user_id, "verify",
                         IF response.status = HTTP_200 THEN "success" ELSE "failure"))

\* the audit log after verify_token_endpoint: the handler makes no
\* create_audit_log call on any path
VerifyAudit(log, response) == log

Verify(token) ==
    /\ last' = VerifyResponse(users, sessions, token, now)
    /\ audit' = VerifyAudit(audit, last')
    /\ UNCHANGED <<now, settings, users, sessions, tokens, nextJti, inflight,
                   revokeLog, loggedOut, faults, logins>>

---------------------------------------------------------------------------
(* GET /auth/me, guarded by get_current_user *)

Me(token) ==
    /\ LET cu == get_current_user(users, sessions, token, now)
       IN  last' = Plain("me", cu.status, cu.detail, "", "none", token, cu.user_id)
    /\ UNCHANGED <<now, settings, users, sessions, audit, tokens, nextJti, inflight,
                   revokeLog, loggedOut, faults, logins>>

---------------------------------------------------------------------------
(* POST /auth/logout: the dependencies are resolved first (in the thread    *)
(* pool), the handler body runs afterwards; other requests run in between.  *)

LogoutRequest(token, user_id) == [tok |-> token, user_id |-> user_id]

\* get_current_user, get_current_user_token and validate_session, in that order
LogoutDeps(token) ==
    /\ BagCardinality(inflight) < MaxInflight
    /\ LET cu == get_current_user(users, sessions, token, now)
           vs == validate_session(sessions, token, now)
       IN  IF cu.status # HTTP_200
           THEN /\ last' = Plain("logout", cu.status, cu.detail, "deps", "none",
                                 token, None)
                /\ UNCHANGED inflight
           ELSE IF vs.status # HTTP_200
           THEN /\ last' = Plain("logout", vs.status, vs.detail, "deps", "none",
                                 token, None)
                /\ UNCHANGED inflight
           ELSE /\ inflight' = inflight (+) SetToBag({LogoutRequest(token, cu.user_id)})
                /\ UNCHANGED last
    /\ UNCHANGED <<now, settings, users, sessions, audit, tokens, nextJti,
                   revokeLog, loggedOut, faults, logins>>

LogoutFaults == {"none", "revoke", "audit"}

\* the handler body: revoke_session, then the logout/success audit
LogoutBody(req, fault) ==
    /\ BagIn(req, inflight)
    /\ InjectFault(fault)
    /\ LET token == req.tok
           jti == token.jti
           success == fault # "revoke" /\ revoke_session_result(sessions, jti)
           raised == success /\ fault = "audit"
       IN  /\ sessions' = IF fault = "revoke" THEN sessions
                          ELSE RevokeRows(sessions, jti, now)
           /\ revokeLog' = IF fault = "revoke" THEN revokeLog
                           ELSE [revokeLog EXCEPT ![jti] = Append(@, success)]
           /\ audit' = IF success /\ ~raised
                       THEN create_audit_log(audit, req.user_id, "logout", "success")
                       ELSE audit
           /\ loggedOut' = IF success /\ ~raised THEN loggedOut \cup {jti}
                           ELSE loggedOut
           /\ last' = IF ~success
                      THEN Plain("logout", HTTP_400, LogoutDetailError, "body",
                                 IF fault = "revoke" THEN fault ELSE "none", token, None)
                      ELSE IF raised
                      THEN Plain("logout", HTTP_500, LogoutDetailError, "body", fault,
                                 token, None)
                      ELSE Plain("logout", HTTP_200, LogoutDetailOk, "body", "none",
                                 token, req.user_id)
    /\ inflight' = inflight (-) SetToBag({req})
    /\ UNCHANGED <<now, settings, users, tokens, nextJti, logins>>

---------------------------------------------------------------------------
(* POST /auth/refresh *)

\* schemas.TokenData is a pydantic model with the fields user_id, username and
\* jti and no method "get": token_payload.get("type") raises AttributeError,
\* which refresh_token_endpoint's "except Exception" turns into the 500 response
TokenDataHasGet == FALSE

RefreshFaults == {"none", "session", "audit"}

\* how far refresh_token_endpoint gets for one request
RefreshOutcome(tbl, rows, token, t, jti, fault) ==
    LET td == verify_token(token, t)
        user == get_user_by_id(tbl, td.user_id)
    IN  IF ~td.ok THEN "credentials"
        ELSE IF ~TokenDataHasGet THEN "attribute_error"
        ELSE IF token.type # "refresh" THEN "type"
        ELSE IF user = None \/ ~tbl[user].is_active THEN "user"
        ELSE IF fault = "session" \/ ~SessionInsertOk(rows, jti) THEN "session_failed"
        ELSE IF fault = "audit" THEN "audit_failed"
        ELSE "refreshed"

\* variant: the refresh revokes the principal's sessions
RefreshLedger_revoking(rows, outcome, user, access, cfg, t) ==
    [i \in 1..Len(rows) |->
        IF rows[i].user_id = user THEN [rows[i] EXCEPT !.is_active = FALSE]
        ELSE rows[i]]

\* the ledger after refresh_token_endpoint: its one write is the create_session
\* of the new access token
RefreshLedger(rows, outcome, user, access, cfg, t) ==
    IF outcome \in {"audit_failed", "refreshed"}
    THEN create_session(rows, user, verify_token(access, t).jti, cfg, t)
    ELSE rows

Refresh(token, fault) ==
    /\ LET outcome == RefreshOutcome(users, sessions, token, now, nextJti, fault)
           minted == outcome \in {"session_failed", "audit_failed", "refreshed"}
           user == verify_token(token, now).user_id
           access == create_access_token(user, users[user].username,
                                         AccessTokenTTL, nextJti, now)
           refresh == create_refresh_token(user, users[user].username,
                                           nextJti + 1, now)
       IN  /\ fault # "none" => outcome = fault \o "_failed"
           /\ minted => nextJti + 1 \in JtiSpace
           /\ InjectFault(fault)
           /\ nextJti' = IF minted THEN nextJti + 2 ELSE nextJti
           /\ sessions' = RefreshLedger(sessions, outcome, user, access, settings, now)
           /\ audit' = IF outcome = "refreshed"
                       THEN create_audit_log(audit, user, "token_refresh", "success")
                       ELSE audit
           /\ tokens' = IF outcome = "refreshed" THEN tokens \cup {access, refresh}
                        ELSE tokens
           /\ last' =
                IF outcome = "credentials"
                THEN Plain("refresh", HTTP_401, DetailCredentials, outcome, fault,
                           token, None)
                ELSE IF outcome = "type"
                THEN Plain("refresh", HTTP_401, RefreshDetailType, outcome, fault,
                           token, None)
                ELSE IF outcome = "user"
                THEN Plain("refresh", HTTP_401, DetailInvalidUser, outcome, fault,
                           token, None)
                ELSE IF outcome = "refreshed"
                THEN Response("refresh", HTTP_200, "", outcome, fault, token, None,
                              access, refresh, get_token_expire_time(settings))
                ELSE Plain("refresh", HTTP_500, RefreshDetailError, outcome, fault,
                           token, None)
    /\ UNCHANGED <<now, settings, users, inflight, revokeLog, loggedOut, logins>>

---------------------------------------------------------------------------
(* DELETE /users/{user_id}, guarded by get_current_admin_user *)

DeactivateFaults == {"none", "update", "audit"}

\* how far deactivate_user gets for one request
DeactivateOutcome(tbl, admin, target, fault) ==
    IF admin.status # HTTP_200 THEN "guard"
    ELSE IF target = admin.user_id THEN "self"
    ELSE IF get_user_by_id(tbl, target) = None THEN "not_found"
    ELSE IF ~tbl[target].is_active THEN "already"
    ELSE IF fault = "update" THEN "update_failed"
    ELSE IF fault = "audit" THEN "audit_failed"
    ELSE "deactivated"

DeactivateUser(token, target, fault) ==
    /\ LET admin == get_current_admin_user(users, sessions, token, now)
           outcome == DeactivateOutcome(users, admin, target, fault)
       IN  /\ fault # "none" => outcome = fault \o "_failed"
           /\ InjectFault(fault)
           /\ users' = IF outcome \in {"audit_failed", "deactivated"}
                       THEN [users EXCEPT ![target].is_active = FALSE]
                       ELSE users
           /\ audit' = IF outcome = "deactivated"
                       THEN create_audit_log(audit, admin.user_id,
                                             "deactivate_user", "success")
                       ELSE audit
           /\ last' =
                IF outcome = "guard"
                THEN Plain("deactivate", admin.status, admin.detail, outcome, fault,
                           token, None)
                ELSE IF outcome = "self"
                THEN Plain("deactivate", HTTP_400, DeactivateDetailSelf, outcome,
                           fault, token, admin.user_id)
                ELSE IF outcome = "not_found"
                THEN Plain("deactivate", HTTP_404, DeactivateDetailNotFound, outcome,
                           fault, token, admin.user_id)
                ELSE IF outcome = "already"
                THEN Plain("deactivate", HTTP_400, DeactivateDetailAlready, outcome,
                           fault, token, admin.user_id)
                ELSE IF outcome = "deactivated"
                THEN Plain("deactivate", HTTP_200, DeactivateDetailOk, outcome,
                           fault, token, admin.user_id)
                ELSE Plain("deactivate", HTTP_500, DeactivateDetailError, outcome,
                           fault, token, admin.user_id)
    /\ UNCHANGED <<now, settings, sessions, tokens, nextJti, inflight, revokeLog,
                   loggedOut, logins>>

---------------------------------------------------------------------------
(* PUT /users/{user_id}, guarded by get_current_user *)

\* schemas.UserUpdate: each field is a set, empty when the request leaves
\* the field unset, else holding the value sent
UserUpdate(email, is_active) == [email |-> email, is_active |-> is_active]

UserUpdates ==
    {UserUpdate(e, a) : e \in {{}, {"bob@example.com"}}, a \in {{}, {TRUE}, {FALSE}}}

Only(set) == CHOOSE x \in set : TRUE

\* get_user_by_email
get_user_by_email(tbl, email) ==
    LET hits == {u \in DOMAIN tbl : tbl[u].email = email}
    IN  IF hits = {} THEN None ELSE CHOOSE u \in hits : \A v \in hits : u <= v

\* whether update_user drops is_active from the request: "if is_self_update
\* and not is_admin"
SelfUpdateStrips(is_self_update, is_admin) == is_self_update /\ ~is_admin

\* the request after update_user has dropped what the caller may not set
EffectiveUpdate(tbl, caller, target, user_update) ==
    IF SelfUpdateStrips(target = caller, tbl[caller].is_admin)
    THEN UserUpdate(user_update.email, {})
    ELSE user_update

\* UserCRUD.update_user: setattr for every field the request has set
update_user(tbl, user_id, user_update) ==
    [tbl EXCEPT ![user_id] =
        [@ EXCEPT !.email = IF user_update.email = {} THEN @
                            ELSE Only(user_update.email),
                  !.is_active = IF user_update.is_active = {} THEN @
                                ELSE Only(user_update.is_active)]]

UpdateFaults == {"none", "update", "audit"}

\* how far update_user gets for one request
UpdateOutcome(tbl, cu, target, user_update, fault) ==
    IF cu.status # HTTP_200 THEN "guard"
    ELSE IF get_user_by_id(tbl, target) = None THEN "not_found"
    ELSE IF target # cu.user_id /\ ~tbl[cu.user_id].is_admin THEN "forbidden"
    ELSE IF /\ user_update.email # {}
            /\ get_user_by_email(tbl, Only(user_update.email)) \notin {None, target}
    THEN "email_taken"
    ELSE IF fault = "update" THEN "update_failed"
    ELSE IF fault = "audit" THEN "audit_failed"
    ELSE "updated"

\* the update_user/success rows of the audit log
UpdateAudits(log) ==
    {i \in 1..Len(log) : log[i].action = "update_user" /\ log[i].result = "success"}

UpdateUser(token, target, user_update, fault) ==
    /\ Cardinality(UpdateAudits(audit)) < MaxUpdates
    /\ LET cu == get_current_user(users, sessions, token, now)
           outcome == UpdateOutcome(users, cu, target, user_update, fault)
       IN  /\ fault # "none" => outcome = fault \o "_failed"
           /\ InjectFault(fault)
           /\ users' = IF outcome \in {"audit_failed", "updated"}
                       THEN update_user(users, target,
                                EffectiveUpdate(users, cu.user_id, target, user_update))
                       ELSE users
           /\ audit' = IF outcome = "updated"
                       THEN create_audit_log(audit, cu.user_id, "update_user", "success")
                       ELSE audit
           /\ last' =
                IF outcome = "guard"
                THEN Plain("update_user", cu.status, cu.detail, outcome, fault,
                           token, None)
                ELSE IF outcome = "not_found"
                THEN Plain("update_user", HTTP_404, UpdateDetailNotFound, outcome,
                           fault, token, cu.user_id)
                ELSE IF outcome = "forbidden"
                THEN Plain("update_user", HTTP_403, UpdateDetailForbidden, outcome,
                           fault, token, cu.user_id)
                ELSE IF outcome = "email_taken"
                THEN Plain("update_user", HTTP_400, UpdateDetailEmail, outcome,
                           fault, token, cu.user_id)
                ELSE IF outcome = "updated"
                THEN Plain("update_user", HTTP_200, "", outcome, fault, token,
                           cu.user_id)
                ELSE Plain("update_user", HTTP_500, UpdateDetailError, outcome,
                           fault, token, cu.user_id)
    /\ UNCHANGED <<now, settings, sessions, tokens, nextJti, inflight, revokeLog,
                   loggedOut, logins>>

\* the clock advances
Tick ==
    /\ now < MaxTime
    /\ now' = now + 1
    /\ UNCHANGED <<settings, users, sessions, audit, tokens, nextJti, inflight,
                   revokeLog, loggedOut, faults, logins, last>>

Next ==
    \/ Tick
    \/ \E id \in Identifiers, pw \in Passwords, f \in LoginFaults : Login(id, pw, f)
    \/ \E tok \in Presentable : Verify(tok)
    \/ \E tok \in Presentable : Me(tok)
    \/ \E tok \in Presentable : LogoutDeps(tok)
    \/ \E req \in BagToSet(inflight), f \in LogoutFaults : LogoutBody(req, f)
    \/ \E tok \in Presentable \ {NoToken}, f \in RefreshFaults : Refresh(tok, f)
    \/ \E tok \in Presentable, target \in UserIds \cup {3}, f \in DeactivateFaults :
          DeactivateUser(tok, target, f)

Spec == Init /\ [][Next]_vars

---------------------------------------------------------------------------
(* Runs with two logins and no storage fault: the requests of two          *)
(* principals, or of one principal twice, in every order                    *)

InitTwoLogins == Constructed(MaxPairLogins, DefaultExpireMinutes)

NextTwoLogins ==
    \/ Tick
    \/ \E id \in Identifiers, pw \in Passwords : Login(id, pw, "none")
    \/ \E tok \in tokens : LogoutDeps(tok)
    \/ \E req \in BagToSet(inflight) : LogoutBody(req, "none")
    \/ \E tok \in tokens : Refresh(tok, "none")
    \/ \E tok \in tokens, target \in UserIds : DeactivateUser(tok, target, "none")

SpecTwoLogins == InitTwoLogins /\ [][NextTwoLogins]_vars

---------------------------------------------------------------------------
(* The token codec by itself: tokens are minted and token strings of every *)
(* kind are given to verify_token                                          *)

\* the token strings a caller can make up
Candidates ==
    [jti : {1}, sub : {None, 1, 2, 3, NonIntegerSub}, username : {"admin"},
     type : {"access", "refresh"}, iat : {0}, exp : 0..(MaxTime + 1),
     sig : {"ok", "mismatch", "algorithm", "malformed"}]

\* what the caller of verify_token gets: the token data, the 401 of the
\* credentials_exception, or another exception
DecodeResponse(token, t) ==
    LET td == verify_token(token, t)
    IN  IF td.ok
        THEN Plain("verify_token", HTTP_200, "", td.raised, "none", token, td.user_id)
        ELSE IF td.raised = "credentials_exception"
        THEN Plain("verify_token", HTTP_401, DetailCredentials, td.raised, "none",
                   token, None)
        ELSE Plain("verify_token", HTTP_500, "", td.raised, "none", token, None)

Decode(token) ==
    /\ last' = DecodeResponse(token, now)
    /\ UNCHANGED <<now, settings, users, sessions, audit, tokens, nextJti, inflight,
                   revokeLog, loggedOut, faults, logins>>

Mint(sub, kind) ==
    /\ Cardinality(tokens) < MaxMinted
    /\ LET token == IF kind = "access"
                    THEN create_access_token(sub, Username(sub), AccessTokenTTL,
                                             nextJti, now)
                    ELSE create_refresh_token(sub, Username(sub), nextJti, now)
       IN  /\ tokens' = tokens \cup {token}
           /\ last' = Plain("mint", HTTP_200, "", kind, "none", token, sub)
    /\ nextJti' = nextJti + 1
    /\ UNCHANGED <<now, settings, users, sessions, audit, inflight, revokeLog,
                   loggedOut, faults, logins>>

InitCodec == Constructed(0, DefaultExpireMinutes)

NextCodec ==
    \/ Tick
    \/ \E sub \in UserIds, kind \in {"access", "refresh"} : Mint(sub, kind)
    \/ \E token \in Candidates \cup tokens : Decode(token)

SpecCodec == InitCodec /\ [][NextCodec]_vars

---------------------------------------------------------------------------
(* The service under each configured access_token_expire_minutes *)

\* 15, 30 and 45 minutes
ConfiguredMinutes == {1, 2, 3}

InitConfig == \E minutes \in ConfiguredMinutes : Constructed(MaxLogins, minutes)

SpecConfig == InitConfig /\ [][Next]_vars

---------------------------------------------------------------------------
(* POST /users/init-admin, without guard *)

\* get_user_by_username
get_user_by_username(tbl, username) ==
    LET hits == {u \in DOMAIN tbl : tbl[u].username = username}
    IN  IF hits = {} THEN None ELSE CHOOSE u \in hits : \A v \in hits : u <= v

\* UserCRUD.get_users(skip=0, limit=1): the empty list when the query fails
get_users(tbl, failing) == IF failing THEN {} ELSE DOMAIN tbl

\* the unique constraints on users.username and users.email (NULLs repeat)
UserInsertOk(tbl, username, email) ==
    \A u \in DOMAIN tbl :
        /\ tbl[u].username # username
        /\ email # "" => tbl[u].email # email

\* UserCRUD.create_user: the row gets the next id and the column defaults
create_user(tbl, username, email, password) ==
    Append(tbl, [username |-> username, email |-> email,
                 hashed_password |-> hash_password(password),
                 is_active |-> TRUE, is_admin |-> FALSE, last_login |-> NoTime])

InitAdminFaults == {"none", "list", "create", "grant", "audit"}

\* how far create_initial_admin gets for one request
InitAdminOutcome(tbl, username, email, fault) ==
    IF get_users(tbl, fault = "list") # {} THEN "users_exist"
    ELSE IF get_user_by_username(tbl, username) # None THEN "username_taken"
    ELSE IF fault = "create" \/ ~UserInsertOk(tbl, username, email)
    THEN "create_failed"
    ELSE IF fault = "grant" THEN "grant_failed"
    ELSE IF fault = "audit" THEN "audit_failed"
    ELSE "created"

InitAdmin(username, email, password, fault) ==
    /\ LET outcome == InitAdminOutcome(users, username, email, fault)
           created == create_user(users, username, email, password)
       IN  /\ fault \in {"create", "grant", "audit"} => outcome = fault \o "_failed"
           /\ InjectFault(fault)
           /\ users' = IF outcome = "grant_failed" THEN created
                       ELSE IF outcome \in {"audit_failed", "created"}
                       THEN [created EXCEPT ![Len(created)].is_admin = TRUE]
                       ELSE users
           /\ audit' = IF outcome = "created"
                       THEN create_audit_log(audit, None, "create_initial_admin",
                                             "success")
                       ELSE audit
           /\ last' =
                IF outcome = "users_exist"
                THEN Plain("init_admin", HTTP_400, InitAdminDetailUsersExist, outcome,
                           fault, NoToken, None)
                ELSE IF outcome = "username_taken"
                THEN Plain("init_admin", HTTP_400, InitAdminDetailUsername, outcome,
                           fault, NoToken, None)
                ELSE IF outcome = "created"
                THEN Plain("init_admin", HTTP_200, username, outcome, fault, NoToken,
                           Len(created))
                ELSE Plain("init_admin", HTTP_500, InitAdminDetailError, outcome,
                           fault, NoToken, None)
    /\ UNCHANGED <<now, settings, sessions, tokens, nextJti, inflight, revokeLog,
                   loggedOut, logins>>

---------------------------------------------------------------------------
(* The first run: the service starts with no principal; initial-admin       *)
(* requests, logins and token checks follow                                 *)

InitFirstRun == Started(MaxLogins, DefaultExpireMinutes, <<>>)

NextFirstRun ==
    \/ Tick
    \/ \E username \in {"admin", "bob"}, email \in {"", "bob@example.com"},
          pw \in Passwords, f \in InitAdminFaults :
          InitAdmin(username, email, pw, f)
    \/ \E id \in Identifiers, pw \in Passwords : Login(id, pw, "none")
    \/ \E tok \in Presentable : Verify(tok)

SpecFirstRun == InitFirstRun /\ [][NextFirstRun]_vars

---------------------------------------------------------------------------
(* Account administration: two principals log in with their credentials,   *)
(* accounts are updated, deactivated and reactivated, tokens are presented  *)

InitAccounts == Constructed(MaxPairLogins, DefaultExpireMinutes)

NextAccounts ==
    \/ Tick
    \/ \E u \in UserIds : Login(Username(u), Password(u), "none")
    \/ \E tok \in tokens : Verify(tok)
    \/ \E tok \in tokens : Me(tok)
    \/ \E tok \in tokens : Refresh(tok, "none")
    \/ \E tok \in tokens, target \in UserIds : DeactivateUser(tok, target, "none")
    \/ \E tok \in tokens, target \in UserIds, user_update \in UserUpdates :
          UpdateUser(tok, target, user_update, "none")

SpecAccounts == InitAccounts /\ [][NextAccounts]_vars

---------------------------------------------------------------------------
(* Properties *)

\* what the caller sees of a response
External(r) ==
    [status |-> r.status, detail |-> r.detail, user_id |-> r.user_id,
     access |-> r.access, refresh |-> r.refresh, expires_in |-> r.expires_in]

Issued(kind) == {tok \in tokens : tok.type = kind}

\* some call of revoke_session(jti) has returned True
RevokedTrue(jti) == \E i \in 1..Len(revokeLog[jti]) : revokeLog[jti][i]

\* the token of a login whose session nobody tried to revoke, whose principal is
\* active and whose session has not reached the expiry login gave it
FreshLogin(tok) ==
    /\ tok \in Issued("access")
    /\ revokeLog[tok.jti] = <<>>
    /\ users[tok.sub].is_active
    /\ now < tok.iat + settings.access_token_expire_minutes

(* C1: after a Logout of an access token has answered 200, every Verify of   *)
(* that token answers 401, also while the token's signature and exp are      *)
(* still valid; before any Logout of it, while its principal is active and   *)
(* its session unexpired, Verify of a token returned by Login answers 200    *)
(* with the principal's id.                                                  *)
C1_LogoutThenVerifyFails ==
    [][\A tok \in Presentable :
          Verify(tok) =>
            /\ (tok.jti \in loggedOut => last'.status = HTTP_401)
            /\ (FreshLogin(tok) =>
                   last'.status = HTTP_200 /\ last'.user_id = tok.sub)]_vars

C1_Witness ==
    /\ last.op = "verify"
    /\ last.tok.jti \in loggedOut
    /\ jwt_decode_ok(last.tok, now)
    /\ last.status = HTTP_401

(* C2: once revoke_session(jti) has returned True, get_active_session(jti)   *)
(* returns none in every later state, while verify_token on the token still  *)
(* succeeds, with the same token id, until the token's exp.                  *)
C2_RevokedNeverActive ==
    \A jti \in JtiSpace :
        RevokedTrue(jti) =>
            /\ get_active_session(sessions, jti, now) = NoSession
            /\ \A tok \in tokens :
                  (tok.jti = jti /\ ~(tok.exp < now)) =>
                      verify_token(tok, now).ok /\ verify_token(tok, now).jti = jti

C2_Witness ==
    \E tok \in Issued("access") :
        /\ RevokedTrue(tok.jti)
        /\ ~(tok.exp < now)
        /\ verify_token(tok, now).ok
        /\ get_active_session(sessions, tok.jti, now) = NoSession

(* C3: get_current_user never returns a principal for an access token whose  *)
(* session record is revoked or expired.                                     *)
C3_CurrentPrincipalChecksSession ==
    [][\A tok \in Presentable :
          (Me(tok) /\ last'.status = HTTP_200) =>
              get_active_session(sessions, tok.jti, now) # NoSession]_vars

(* C4: two calls of revoke_session on the same existing token id return      *)
(* True, then False.                                                         *)
C4_RevokeTwice ==
    \A jti \in JtiSpace :
        Len(revokeLog[jti]) >= 2 =>
            revokeLog[jti][1] = TRUE /\ revokeLog[jti][2] = FALSE

(* C5: Refresh with a valid, unexpired refresh token of an existing active   *)
(* principal answers 200 with a new token pair and adds exactly one active   *)
(* session row, keyed by the new access token's id, which no row had before. *)
C5_RefreshSucceeds ==
    [][\A tok \in Issued("refresh") :
          (/\ Refresh(tok, "none")
           /\ jwt_decode_ok(tok, now)
           /\ users[tok.sub].is_active) =>
              /\ last'.status = HTTP_200
              /\ Len(sessions') = Len(sessions) + 1
              /\ sessions'[Len(sessions')].is_active
              /\ sessions'[Len(sessions')].token_jti = last'.access.jti
              /\ SessionInsertOk(sessions, last'.access.jti)]_vars

(* C6: a failing audit write does not change the outcome of a Login: an      *)
(* accepted Login still answers 200 with its tokens, a rejected one 401.     *)
C6_AuditFailureKeepsDecision ==
    (last.op = "login" /\ last.fault = "audit") =>
        IF last.case = "accepted"
        THEN last.status = HTTP_200 /\ last.access # NoToken
        ELSE last.status = HTTP_401

(* C7: a Login for an identifier that matches no principal and a Login with  *)
(* an active principal's identifier and a wrong password get the same        *)
(* external response (status and payload), the storage behaving alike.       *)
C7_NoEnumeration ==
    (last.op = "login" /\ last.case \in {"unknown", "wrong_password"}) =>
        \A other \in {"unknown", "wrong_password"} :
            External(last) =
                External(LoginRejection(other,
                                        IF last.fault = "audit" THEN "audit"
                                        ELSE "none"))

C7_Witness ==
    /\ last.op = "login"
    /\ last.case = "wrong_password"
    /\ last.status = HTTP_401
    /\ External(last) = External(LoginRejection("unknown", "none"))

(* C8: Verify never answers 200 for a token whose kind is not access: a      *)
(* validly signed, unexpired refresh token is answered 401.                  *)
C8_VerifyRejectsRefresh ==
    (last.op = "verify" /\ last.tok.type # "access") => last.status = HTTP_401

C8_Witness ==
    /\ last.op = "verify"
    /\ last.tok \in Issued("refresh")
    /\ jwt_decode_ok(last.tok, now)
    /\ last.status = HTTP_401

(* C9: a validly signed, unexpired refresh token presented as the bearer     *)
(* credential to an endpoint guarded by get_current_user or                  *)
(* get_current_admin_user is answered 401.                                   *)
C9_RefreshNeverAuthorizes ==
    (last.op \in {"me", "deactivate"} /\ last.tok \in Issued("refresh")) =>
        last.status = HTTP_401

\* the token ids drawn for refresh tokens: login draws the access token's id
\* first and the refresh token's id second
RefreshJtis == {j \in 1..(nextJti - 1) : j % 2 = 0}

(* C10: a Login that answers 200 adds exactly one session row, which is      *)
(* active and keyed by the id of the access token returned; no session row   *)
(* is ever keyed by the id of a refresh token.                               *)
C10_LoginAddsOneSession ==
    /\ [][\A id \in Identifiers, pw \in Passwords, f \in LoginFaults :
             (Login(id, pw, f) /\ last'.status = HTTP_200) =>
                 /\ Len(sessions') = Len(sessions) + 1
                 /\ SubSeq(sessions', 1, Len(sessions)) = sessions
                 /\ sessions'[Len(sessions')].is_active
                 /\ last'.access.type = "access"
                 /\ sessions'[Len(sessions')].token_jti = last'.access.jti]_vars
    /\ [](\A i \in 1..Len(sessions) :
             /\ sessions[i].token_jti \notin RefreshJtis
             /\ \A tok \in Issued("refresh") : sessions[i].token_jti # tok.jti)

C10_Witness ==
    /\ last.op = "login"
    /\ last.status = HTTP_200
    /\ Len(sessions) = 1
    /\ sessions[1].is_active
    /\ sessions[1].token_jti = last.access.jti

\* the rows of the ledger keyed by a token id
RowsOf(jti) == {i \in 1..Len(sessions) : sessions[i].token_jti = jti}

(* C11: get_active_session(token_id) returns a record exactly when a record  *)
(* with that token id exists whose active flag is true and whose expires_at  *)
(* is strictly later than the time of the call, and then returns such a      *)
(* record; a record still flagged active whose expiry has passed is absent.  *)
C11_ActiveIffFlagAndExpiry ==
    \A jti \in JtiSpace :
        LET got == get_active_session(sessions, jti, now)
            live == {i \in RowsOf(jti) :
                        sessions[i].is_active /\ sessions[i].expires_at > now}
        IN  /\ (got # NoSession) <=> (live # {})
            /\ got # NoSession => \E i \in live : got = sessions[i]

C11_Witness ==
    \E i \in 1..Len(sessions) :
        /\ sessions[i].is_active
        /\ sessions[i].expires_at = now
        /\ get_active_session(sessions, sessions[i].token_jti, now) = NoSession

(* C12: two Logins of the same principal, in either order and with other     *)
(* requests in between, both answer 200 with token ids that no earlier token *)
(* or session carries; each adds an active session and leaves the other      *)
(* sessions as they were, and revoking one session changes no other session. *)
C12_TwoLoginsIndependent ==
    [][/\ \A u \in UserIds :
            (Login(Username(u), Password(u), "none") /\ users[u].is_active) =>
                /\ last'.status = HTTP_200
                /\ RowsOf(last'.access.jti) = {}
                /\ \A tok \in tokens : tok.jti \notin {last'.access.jti,
                                                        last'.refresh.jti}
                /\ Len(sessions') = Len(sessions) + 1
                /\ SubSeq(sessions', 1, Len(sessions)) = sessions
                /\ get_active_session(sessions', last'.access.jti, now')
                       = sessions'[Len(sessions')]
       /\ \A req \in BagToSet(inflight) :
            LogoutBody(req, "none") =>
                /\ Len(sessions') = Len(sessions)
                /\ \A i \in 1..Len(sessions) :
                      sessions[i].token_jti # req.tok.jti =>
                          sessions'[i] = sessions[i]]_vars

C12_Witness ==
    \E i, j \in 1..Len(sessions) :
        /\ i # j
        /\ sessions[i].user_id = sessions[j].user_id
        /\ sessions[i].token_jti # sessions[j].token_jti
        /\ sessions[i].token_jti \in loggedOut
        /\ get_active_session(sessions, sessions[i].token_jti, now) = NoSession
        /\ get_active_session(sessions, sessions[j].token_jti, now) = sessions[j]

\* the logout requests in flight that carry a token id
InFlightFor(jti) == {req \in BagToSet(inflight) : req.tok.jti = jti}

(* C13: without storage faults, whatever the order of the steps of two       *)
(* Logout requests (or a Logout and a Verify) with the same access token,    *)
(* also when both pass validate_session before either revokes, no response   *)
(* is a 500, and once the requests are served the session row is revoked.    *)
C13_ConcurrentLogoutSafe ==
    faults = 0 =>
        /\ last.op \in {"logout", "verify"} => last.status # HTTP_500
        /\ \A jti \in JtiSpace :
              (revokeLog[jti] # <<>> /\ InFlightFor(jti) = {}) =>
                  /\ RowsOf(jti) # {}
                  /\ \A i \in RowsOf(jti) :
                        ~sessions[i].is_active /\ sessions[i].revoked_at # NoTime

C13_Witness ==
    \E jti \in JtiSpace :
        /\ faults = 0
        /\ Len(revokeLog[jti]) = 2
        /\ InFlightFor(jti) = {}
        /\ last.op = "logout" /\ last.status = HTTP_200 /\ last.tok.jti = jti
        /\ \A i \in RowsOf(jti) : ~sessions[i].is_active

(* C14: once get_active_session(token_id) returns none for a token id that  *)
(* has a session row, it returns none after every further step: no Login,   *)
(* Logout, Refresh or deactivation and no passing of time brings the row    *)
(* back.                                                                    *)
C14_RevokedExpiredTerminal ==
    [][\A jti \in JtiSpace :
          (RowsOf(jti) # {} /\ get_active_session(sessions, jti, now) = NoSession) =>
              get_active_session(sessions', jti, now') = NoSession]_vars

C14_Witness ==
    \E i, j \in 1..Len(sessions) :
        /\ i < j
        /\ sessions[i].user_id = sessions[j].user_id
        /\ sessions[i].revoked_at # NoTime
        /\ sessions[j].expires_at >=
              sessions[i].revoked_at + settings.access_token_expire_minutes
        /\ get_active_session(sessions, sessions[i].token_jti, now) = NoSession
        /\ get_active_session(sessions, sessions[j].token_jti, now) # NoSession

(* C15: in every reachable state the ledger holds at most one row per token *)
(* id, whatever the order of the Login and Refresh requests.                *)
C15_OneRowPerTokenId ==
    \A jti \in JtiSpace : Cardinality(RowsOf(jti)) <= 1

C15_Witness ==
    /\ Len(sessions) = 2
    /\ sessions[1].token_jti # sessions[2].token_jti
    /\ sessions[1].user_id = sessions[2].user_id
    /\ last.op = "refresh"

(* C16: a Refresh request leaves every existing session row as it was: the  *)
(* row of the access token issued with the presented refresh token and      *)
(* every other row keep is_active, expires_at and revoked_at.               *)
C16_RefreshKeepsSessions ==
    [][\A tok \in Presentable, f \in RefreshFaults :
          Refresh(tok, f) =>
              /\ Len(sessions') >= Len(sessions)
              /\ SubSeq(sessions', 1, Len(sessions)) = sessions]_vars

C16_Witness ==
    /\ last.op = "refresh"
    /\ last.tok \in Issued("refresh")
    /\ \E i \in 1..Len(sessions) :
          /\ sessions[i].user_id = last.tok.sub
          /\ sessions[i].expires_at = last.tok.iat + settings.access_token_expire_minutes
          /\ get_active_session(sessions, sessions[i].token_jti, now) = sessions[i]

\* the access tokens issued by the login that issued a refresh token
CompanionsOf(tok) ==
    {a \in Issued("access") : a.sub = tok.sub /\ a.iat = tok.iat /\ a.jti = tok.jti - 1}

(* C17: a refresh token is not consumed: a Refresh with a valid refresh     *)
(* token of an active principal answers 200 with new tokens and a new       *)
(* session, also after the session of the access token issued with it has   *)
(* been revoked by Logout.                                                  *)
C17_RefreshTokenReusable ==
    (/\ last.op = "refresh"
     /\ last.tok \in Issued("refresh")
     /\ jwt_decode_ok(last.tok, now)
     /\ users[last.tok.sub].is_active
     /\ \E a \in CompanionsOf(last.tok) : a.jti \in loggedOut) =>
        /\ last.status = HTTP_200
        /\ last.access \in Issued("access")
        /\ RowsOf(last.access.jti) # {}

(* C18: Refresh with a validly signed, unexpired access token answers 401,  *)
(* issues no token and adds no session row.                                 *)
C18_RefreshRejectsAccessToken ==
    [][\A tok \in Issued("access") :
          (Refresh(tok, "none") /\ jwt_decode_ok(tok, now)) =>
              /\ last'.status = HTTP_401
              /\ last'.access = NoToken /\ last'.refresh = NoToken
              /\ tokens' = tokens
              /\ sessions' = sessions]_vars

(* C19: Refresh with a validly signed, unexpired refresh token of a         *)
(* principal that is inactive answers 401, issues no token and adds no      *)
(* session row.                                                             *)
C19_RefreshRejectsInactive ==
    [][\A tok \in Issued("refresh") :
          (/\ Refresh(tok, "none")
           /\ jwt_decode_ok(tok, now)
           /\ ~users[tok.sub].is_active) =>
              /\ last'.status = HTTP_401
              /\ last'.access = NoToken /\ last'.refresh = NoToken
              /\ tokens' = tokens
              /\ sessions' = sessions]_vars

\* the login/success rows of the audit log
LoginAudits(log) ==
    {i \in 1..Len(log) : log[i].action = "login" /\ log[i].result = "success"}

(* C20: a Login that answers 200 has stored its session row and written its *)
(* login/success audit row: no login/success audit row is written by a      *)
(* Login that stored no session row, and no token of a Login is in a        *)
(* client's hands without its session row in the ledger.                    *)
C20_SessionBeforeAuditAndResponse ==
    /\ [][\A id \in Identifiers, pw \in Passwords, f \in LoginFaults :
             Login(id, pw, f) =>
                 /\ LoginAudits(audit') # LoginAudits(audit) =>
                        Len(sessions') = Len(sessions) + 1
                 /\ last'.status = HTTP_200 =>
                        /\ \E i \in 1..Len(sessions') :
                              sessions'[i].token_jti = last'.access.jti
                        /\ LoginAudits(audit') # LoginAudits(audit)]_vars
    /\ [](/\ \A tok \in Issued("access") : RowsOf(tok.jti) # {}
          /\ Cardinality(LoginAudits(audit)) <= Len(sessions))

C20_Witness ==
    /\ last.op = "login"
    /\ last.status = HTTP_200
    /\ Len(audit) > 0
    /\ audit[Len(audit)] = AuditRow(last.user_id, "login", "success")
    /\ RowsOf(last.access.jti) # {}

\* the audit row login owes a request, from the principal table as it is
LoginAuditOwed(id, pw) ==
    LET user == get_user_by_username_or_email(users, id)
    IN  IF user = None THEN AuditRow(None, "login", "failure")
        ELSE IF ~users[user].is_active THEN AuditRow(user, "login", "failure")
        ELSE IF ~verify_password(pw, users[user].hashed_password, FALSE)
        THEN AuditRow(user, "login", "failure")
        ELSE AuditRow(user, "login", "success")

(* C21: every Login that reaches a decision (401 or 200) appends exactly    *)
(* one audit row with action login: failure with null subject id for an     *)
(* unknown principal, failure with the principal's id for an inactive       *)
(* principal and for a wrong password, success with the principal's id for  *)
(* an accepted login.                                                       *)
C21_LoginAuditsOnce ==
    [][\A id \in Identifiers, pw \in Passwords :
          (Login(id, pw, "none") /\ last'.status \in {HTTP_200, HTTP_401}) =>
              audit' = Append(audit, LoginAuditOwed(id, pw))]_vars

C21_Witness ==
    /\ last.op = "login"
    /\ last.case = "inactive"
    /\ last.status = HTTP_401
    /\ audit[Len(audit)] = AuditRow(2, "login", "failure")

(* C22: the audit log is append-only: every step of every request leaves    *)
(* the rows already written as they were, in place, and the number of rows  *)
(* never decreases.                                                         *)
C22_AuditAppendOnly ==
    [][/\ Len(audit') >= Len(audit)
       /\ SubSeq(audit', 1, Len(audit)) = audit]_vars

C22_Witness ==
    /\ Len(audit) >= 3
    /\ audit[1] = AuditRow(1, "login", "success")
    /\ audit[Len(audit)].action = "logout"

(* C23: Verify changes no state: it writes no audit row and leaves every    *)
(* session row and every principal as it was, whether it answers 200 or     *)
(* 401.                                                                     *)
C23_VerifyReadsOnly ==
    [][\A tok \in Presentable :
          Verify(tok) =>
              /\ audit' = audit
              /\ sessions' = sessions
              /\ users' = users
              /\ tokens' = tokens]_vars

C23_Witness ==
    /\ last.op = "verify"
    /\ last.status = HTTP_200
    /\ Len(audit) = 1
    /\ Len(sessions) = 1

(* C24: verify_password does not raise: when the hash comparison fails      *)
(* internally it returns false, and the Login of an existing, active        *)
(* principal answers the 401 of a wrong password, whatever the password,    *)
(* issues no token and creates no session.                                  *)
C24_HashFailureIsBadCredentials ==
    [][\A id \in Identifiers, pw \in Passwords :
          Login(id, pw, "hash") =>
              /\ ~verify_password(pw, hash_password(pw), TRUE)
              /\ last'.status = HTTP_401
              /\ last'.detail = LoginDetailWrongPassword
              /\ last'.access = NoToken /\ last'.refresh = NoToken
              /\ tokens' = tokens
              /\ sessions' = sessions]_vars

C24_Witness ==
    /\ last.op = "login"
    /\ last.fault = "hash"
    /\ last.status = HTTP_401
    /\ sessions = <<>>
    /\ audit = <<AuditRow(2, "login", "failure")>>

(* C26: Verify does not tell which check failed: every 401 it gives a       *)
(* presented token is the same response, be the token forged or expired,    *)
(* the principal missing or inactive, or the session revoked or expired.    *)
C26_VerifyUniformFailure ==
    (last.op = "verify" /\ last.status # HTTP_200 /\ last.tok # NoToken) =>
        External(last) = External(VerifyResponse(users, sessions, ForgedToken, now))

(* C28: when create_session fails with a storage error during Login, the    *)
(* Login answers 500: no token is returned, no session row exists for the   *)
(* minted access token, and no login/success audit row is written.          *)
C28_SessionFailureIsFatal ==
    [][\A id \in Identifiers, pw \in Passwords :
          Login(id, pw, "session") =>
              /\ last'.status = HTTP_500
              /\ last'.access = NoToken /\ last'.refresh = NoToken
              /\ tokens' = tokens
              /\ sessions' = sessions
              /\ LoginAudits(audit') = LoginAudits(audit)]_vars

C28_Witness ==
    /\ last.op = "login"
    /\ last.fault = "session"
    /\ last.case = "accepted"
    /\ last.status = HTTP_500
    /\ sessions = <<>>
    /\ LoginAudits(audit) = {}

(* C30: a storage failure while Login looks the principal up is answered    *)
(* 500, not 401, and writes no login/failure audit row for an unknown user. *)
C30_LookupFailureIsInternal ==
    [][\A id \in Identifiers, pw \in Passwords :
          Login(id, pw, "lookup") =>
              /\ last'.status = HTTP_500
              /\ audit' = audit]_vars

\* the token strings verify_token accepts at a time
Acceptable(token, t) ==
    /\ token.sig = "ok"
    /\ token.exp >= t
    /\ token.sub \notin {None, NonIntegerSub}

(* C25: verify_token raises one and the same 401 error for every cause of   *)
(* rejection (signature mismatch, another declared algorithm, malformed     *)
(* string, expired exp, missing sub, non-integer sub), rejects exactly      *)
(* these, and lets no other exception out.                                  *)
C25_VerifyTokenUniformError ==
    /\ \A token \in Candidates \cup tokens :
          LET td == verify_token(token, now)
          IN  /\ td.ok <=> Acceptable(token, now)
              /\ ~td.ok => td = TokenDataFail
    /\ (last.op = "verify_token" /\ last.status # HTTP_200) =>
          /\ last.status = HTTP_401
          /\ last.detail = DetailCredentials
          /\ last.case = "credentials_exception"

C25_Witness ==
    /\ last.op = "verify_token"
    /\ last.tok.sig = "ok"
    /\ last.tok.exp >= now
    /\ last.tok.sub = NonIntegerSub
    /\ last.status = HTTP_401
    /\ last.detail = DetailCredentials

(* C27: round trip of the codec: verify_token of a token made by            *)
(* create_access_token or create_refresh_token, before its exp, returns the *)
(* claims put in: subject id, subject name, token id and kind.              *)
C27_CodecRoundTrip ==
    \A token \in tokens :
        ~(token.exp < now) =>
            LET td == verify_token(token, now)
            IN  /\ td.ok
                /\ td.user_id = token.sub
                /\ td.username = token.username
                /\ td.jti = token.jti
                /\ "type" \in DOMAIN td
                /\ td.type = token.type

(* C29: the expires_in of a Login that answers 200 is the lifetime of the   *)
(* access token returned, exp minus iat, in seconds, for every configured   *)
(* access_token_expire_minutes.                                             *)
C29_ExpiresInIsTokenLifetime ==
    (last.op = "login" /\ last.status = HTTP_200) =>
        last.expires_in = (last.access.exp - last.access.iat) * SecondsPerTick

\* the rows of the ledger whose token no client holds
OrphanRows ==
    {i \in 1..Len(sessions) : \A tok \in tokens : tok.jti # sessions[i].token_jti}

(* C31: the session row committed by a Login that fails afterwards (its     *)
(* audit write raises, the Login answers 500 and returns no token) is not   *)
(* rolled back: it is in the ledger, active, and stays active; no step      *)
(* removes a session row or changes a row's id, principal, token id or      *)
(* expiry.                                                                  *)
C31_CommittedSessionStays ==
    /\ [][/\ Len(sessions') >= Len(sessions)
          /\ \A i \in 1..Len(sessions) :
                /\ sessions'[i].id = sessions[i].id
                /\ sessions'[i].user_id = sessions[i].user_id
                /\ sessions'[i].token_jti = sessions[i].token_jti
                /\ sessions'[i].expires_at = sessions[i].expires_at
          /\ \A id \in Identifiers, pw \in Passwords :
                (Login(id, pw, "audit") /\ last'.case = "accepted") =>
                    /\ last'.status = HTTP_500
                    /\ tokens' = tokens
                    /\ Len(sessions') = Len(sessions) + 1
                    /\ sessions'[Len(sessions')].is_active]_vars
    /\ [](\A i \in OrphanRows :
             sessions[i].is_active /\ sessions[i].revoked_at = NoTime)

C31_Witness ==
    /\ last.op = "login"
    /\ last.fault = "audit"
    /\ last.case = "accepted"
    /\ last.status = HTTP_500
    /\ tokens = {}
    /\ Len(sessions) = 1
    /\ get_active_session(sessions, sessions[1].token_jti, now) # NoSession

(* C34: in every reachable state a session row that is active has a null   *)
(* revoked_at and a row with a revoked_at is inactive; a step clears a      *)
(* row's is_active exactly when it gives the row its revoked_at, so the     *)
(* two fields of a revoke are never seen one without the other.             *)
C34_RevokeFieldsTogether ==
    /\ [](\A i \in 1..Len(sessions) :
             /\ sessions[i].is_active => sessions[i].revoked_at = NoTime
             /\ sessions[i].revoked_at # NoTime => ~sessions[i].is_active)
    /\ [][\A i \in 1..Len(sessions) :
             (sessions[i].is_active /\ ~sessions'[i].is_active)
                 <=> (sessions[i].revoked_at = NoTime
                      /\ sessions'[i].revoked_at # NoTime)]_vars

C34_Witness ==
    /\ last.op = "logout"
    /\ last.status = HTTP_200
    /\ Len(sessions) = 1
    /\ ~sessions[1].is_active
    /\ sessions[1].revoked_at = now
    /\ now > 0

\* the logout/success rows of the audit log
LogoutAudits(log) ==
    {i \in 1..Len(log) : log[i].action = "logout" /\ log[i].result = "success"}

(* C36: each session is logged out at most once: however the Logout        *)
(* requests for one access token interleave, at most one logout/success     *)
(* audit row is written per token id logged out, and a revoked_at once      *)
(* stamped is not overwritten by a later revoke.                            *)
C36_LogoutAtMostOnce ==
    /\ [](Cardinality(LogoutAudits(audit)) <= Cardinality(loggedOut))
    /\ [][\A i \in 1..Len(sessions) :
             sessions[i].revoked_at # NoTime =>
                 sessions'[i].revoked_at = sessions[i].revoked_at]_vars

\* a login request that must be rejected, from the principal table as it is
LoginMustReject(id, pw) ==
    LET user == get_user_by_username_or_email(users, id)
    IN  \/ user = None
        \/ ~users[user].is_active
        \/ users[user].hashed_password # hash_password(pw)

(* C35: a rejected Login (unknown principal, inactive principal or wrong    *)
(* password) answers 401, issues no token, creates no session row and       *)
(* leaves every principal's last_login as it was; a step changes a          *)
(* principal's last_login only if it is a Login of that principal that      *)
(* passed the three checks.                                                 *)
C35_RejectedLoginChangesNothing ==
    [][/\ \A id \in Identifiers, pw \in Passwords :
             (Login(id, pw, "none") /\ LoginMustReject(id, pw)) =>
                 /\ last'.status = HTTP_401
                 /\ last'.access = NoToken /\ last'.refresh = NoToken
                 /\ tokens' = tokens
                 /\ sessions' = sessions
                 /\ users' = users
       /\ \A u \in UserIds :
             users'[u].last_login # users[u].last_login =>
                 /\ users'[u].last_login = now
                 /\ \E id \in Identifiers, pw \in Passwords :
                       /\ Login(id, pw, "none")
                       /\ ~LoginMustReject(id, pw)
                       /\ get_user_by_username_or_email(users, id) = u]_vars

C35_Witness ==
    /\ last.op = "login"
    /\ last.case = "wrong_password"
    /\ last.status = HTTP_401
    /\ users[2].last_login = NoTime
    /\ users[1].last_login = 0
    /\ now > 0
    /\ Len(sessions) = 1

(* C38: Login checks the active flag before the password: the Login of an  *)
(* inactive principal gets the inactive-account 401 whatever the password,  *)
(* right or wrong, and that response differs from the one for an unknown    *)
(* principal or a wrong password, so the status of an account shows without *)
(* its password.                                                            *)
C38_InactiveBeforePassword ==
    [][\A id \in Identifiers, pw \in Passwords :
          LET user == get_user_by_username_or_email(users, id)
          IN  (Login(id, pw, "none") /\ user # None /\ ~users[user].is_active) =>
                  /\ last'.status = HTTP_401
                  /\ last'.detail = LoginDetailInactive
                  /\ External(last') = External(LoginRejection("inactive", "none"))
                  /\ External(last') # External(LoginRejection("unknown", "none"))
                  /\ External(last') #
                         External(LoginRejection("wrong_password", "none"))]_vars

C38_Witness ==
    /\ last.op = "login"
    /\ last.case = "inactive"
    /\ last.status = HTTP_401
    /\ last.detail = LoginDetailInactive
    /\ last.detail # LoginDetailUnknown
    /\ ~users[2].is_active
    /\ audit[Len(audit)] = AuditRow(2, "login", "failure")

(* C37: the session row of an access token expires at the instant the      *)
(* token does: for every configured access_token_expire_minutes and at      *)
(* every time, an issued access token whose session is not revoked is       *)
(* within its exp exactly when get_active_session returns its session.      *)
C37_SessionExpiresWithToken ==
    \A tok \in Issued("access") :
        (\A i \in RowsOf(tok.jti) : sessions[i].is_active) =>
            (jwt_decode_ok(tok, now)
                <=> get_active_session(sessions, tok.jti, now) # NoSession)

(* C33: no principal clears its own active flag: an update_user request    *)
(* whose target is the caller leaves the caller's is_active as it was, and  *)
(* a deactivate_user request whose target is the caller is rejected and     *)
(* changes no principal, be the caller an admin or not.                     *)
C33_NoSelfDeactivation ==
    [][\A tok \in tokens :
          /\ \A user_update \in UserUpdates :
                UpdateUser(tok, tok.sub, user_update, "none") =>
                    users'[tok.sub].is_active = users[tok.sub].is_active
          /\ DeactivateUser(tok, tok.sub, "none") =>
                /\ last'.status \in {HTTP_400, HTTP_401, HTTP_403}
                /\ users' = users]_vars

(* C39: while a principal is inactive, Verify, CurrentPrincipal and         *)
(* Refresh fail for each of its tokens, and so does Logout, whose first     *)
(* dependency is get_current_user; deactivating a principal changes no      *)
(* session row; a step that reactivates a principal changes no session row  *)
(* either, and after it every access token of the principal that is within  *)
(* its exp and has an active session is accepted again by Verify and by     *)
(* get_current_user.                                                        *)
C39_DeactivationBlocksTokens ==
    [][\A tok \in tokens :
          /\ ~users[tok.sub].is_active =>
                /\ Verify(tok) => last'.status = HTTP_401
                /\ Me(tok) => last'.status = HTTP_401
                /\ Refresh(tok, "none") => last'.status # HTTP_200
                /\ get_current_user(users, sessions, tok, now).status = HTTP_401
          /\ \A target \in UserIds :
                DeactivateUser(tok, target, "none") => sessions' = sessions
          /\ \A target \in UserIds, user_update \in UserUpdates :
                (/\ UpdateUser(tok, target, user_update, "none")
                 /\ ~users[target].is_active
                 /\ users'[target].is_active) =>
                    /\ sessions' = sessions
                    /\ \A held \in tokens :
                          (/\ held.sub = target
                           /\ jwt_decode_ok(held, now)
                           /\ get_active_session(sessions, held.jti, now) # NoSession)
                          => /\ VerifyResponse(users', sessions', held, now').status
                                    = HTTP_200
                             /\ get_current_user(users', sessions', held, now').status
                                    = HTTP_200]_vars

C39_Witness ==
    /\ last.op = "verify"
    /\ last.status = HTTP_200
    /\ last.tok.sub = 2
    /\ users[2].is_active
    /\ \E i, j \in 1..Len(audit) :
          /\ i < j
          /\ audit[i] = AuditRow(1, "deactivate_user", "success")
          /\ audit[j] = AuditRow(1, "update_user", "success")

(* C32: the initial-admin operation succeeds only when no principal         *)
(* exists: however the initial-admin requests follow one another, with      *)
(* equal or different usernames, a request adds a principal only to an      *)
(* empty table, so the table never holds more than one principal made this  *)
(* way.                                                                     *)
C32_OneInitialAdmin ==
    /\ [][\A username \in {"admin", "bob"}, email \in {"", "bob@example.com"},
             pw \in Passwords, f \in InitAdminFaults :
             (/\ InitAdmin(username, email, pw, f)
              /\ (last'.status = HTTP_200 \/ Len(users') > Len(users))) =>
                 users = <<>>]_vars
    /\ [](Len(users) <= 1)

====
